---- MODULE Spec2Model ----
(***************************************************************************)
(* The CESKM machine of precursor-ts (src/src/ceskm.ts): control,          *)
(* environment, store, kontinuation and meta-stack, driven by step,        *)
(* positive and continue.  Env objects are mutable and shared by           *)
(* reference, so they live in a heap (envs) and are named by their index.  *)
(* Addresses `#sym<n>` are represented by the number n.                    *)
(***************************************************************************)
EXTENDS Integers, Sequences, FiniteSets, TLC

(* ------------------------------ bounds --------------------------------- *)
MaxStore == 40   \* step is not called once the store holds this many addresses
MaxMeta == 8    \* step is not called once the meta-stack is this long
MaxEnvs == 64   \* step is not called once this many Env objects exist
MaxIter == 12   \* loop iterations followed inside one call of step
MaxRuns == 2    \* programs run one after another on one machine instance
MaxElems == 3   \* elements after the head in a list given to build_cbpv
MaxInput == 3   \* characters of a string given to Parser.parse
MaxCursor == 5  \* the cursors past the end of the input that are told apart

(* ------------------------- grammar.ts: Cbpv ---------------------------- *)
(* A field name has one type in every record that carries it, so the     *)
(* symbol's string `v` is the field name, and the op's string `op` is    *)
(* the field opSym.                                                       *)
cbpv_lit(v) == [tag |-> "cbpv_literal", v |-> v]
cbpv_sym(v) == [tag |-> "cbpv_symbol", name |-> v]
cbpv_op(opSym, erands) == [tag |-> "cbpv_op", opSym |-> opSym, erands |-> erands]
cbpv_suspend(exp) == [tag |-> "cbpv_suspend", exp |-> exp]
cbpv_resume(v) == [tag |-> "cbpv_resume", v |-> v]
cbpv_lam(args, body) == [tag |-> "cbpv_abstract", args |-> args, body |-> body]
cbpv_app(op, erands) == [tag |-> "cbpv_apply", op |-> op, erands |-> erands]
cbpv_let(v, exp, body) == [tag |-> "cbpv_let", v |-> v, exp |-> exp, body |-> body]
cbpv_letrec(bindings, body) ==
  [tag |-> "cbpv_letrec", bindings |-> bindings, body |-> body]
cbpv_reset(exp) == [tag |-> "cbpv_reset", exp |-> exp]
cbpv_shift(karg, body) == [tag |-> "cbpv_shift", karg |-> karg, body |-> body]
cbpv_if(c, t, e) == [tag |-> "cbpv_if", c |-> c, t |-> t, e |-> e]

\* a test that finds no term positive
NothingIsPositive(expr) == FALSE

\* a test that takes a Suspend for a negative term
SuspendIsNegative(expr) ==
  expr.tag \in {"cbpv_literal", "cbpv_symbol", "cbpv_op"}

cbpv_is_positive(expr) ==
  expr.tag \in {"cbpv_literal", "cbpv_symbol", "cbpv_op", "cbpv_suspend"}

\* the immediate subterms of a term
Subterms(t) ==
  CASE t.tag \in {"cbpv_literal", "cbpv_symbol"} -> {}
    [] t.tag = "cbpv_op" -> {t.erands[i] : i \in DOMAIN t.erands}
    [] t.tag \in {"cbpv_suspend", "cbpv_reset"} -> {t.exp}
    [] t.tag = "cbpv_resume" -> {t.v}
    [] t.tag \in {"cbpv_abstract", "cbpv_shift"} -> {t.body}
    [] t.tag = "cbpv_apply" -> {t.op} \cup {t.erands[i] : i \in DOMAIN t.erands}
    [] t.tag = "cbpv_let" -> {t.exp, t.body}
    [] t.tag = "cbpv_letrec" ->
         {t.bindings[i][2] : i \in DOMAIN t.bindings} \cup {t.body}
    [] t.tag = "cbpv_if" -> {t.c, t.t, t.e}

\* the term is sub, or sub is one of the terms inside it
RECURSIVE Contains(_, _)
Contains(t, sub) == t = sub \/ \E s \in Subterms(t) : Contains(s, sub)

\* the term and every term inside it
RECURSIVE TermsIn(_)
TermsIn(t) == {t} \cup UNION {TermsIn(s) : s \in Subterms(t)}

\* the term, or one of the terms inside it, is of one of the given kinds
RECURSIVE Uses(_, _)
Uses(t, tags) == t.tag \in tags \/ \E s \in Subterms(t) : Uses(s, tags)

(* Literal payloads of the host type number | boolean | null.  A payload   *)
(* is a record so that payloads of different JavaScript types compare.     *)
Num(n) == [ty |-> "number", n |-> n]
Bool(b) == [ty |-> "boolean", n |-> IF b THEN 1 ELSE 0]
Null == [ty |-> "null", n |-> 0]

(* ------------------- ceskm.ts: continuations, values ------------------- *)
topk == [kt |-> "top"]
Args(args, k) == [kt |-> "args", args |-> args, k |-> k]
Let(lets, exp, env, k) == [kt |-> "let", lets |-> lets, exp |-> exp, env |-> env, k |-> k]

continuation(k) == [vt |-> "k", k |-> k]
scalar(v) == [vt |-> "v", v |-> v]
\* the JavaScript value undefined, which an out-of-range array read yields
undefined == [vt |-> "undefined"]

(* ----------------------------- ceskm.ts: Env --------------------------- *)
\* the content of an Env object: a function from the bound names
emptyEnvContent == [n \in {} |-> 0]
addrBinding(a) == [bt |-> "addr", a |-> a]
defBinding(d) == [bt |-> "def", d |-> d]
EnvBind(e, name, addrOrExpr) ==
  [n \in (DOMAIN e) \cup {name} |-> IF n = name THEN addrOrExpr ELSE e[n]]

\* Env.bind mutates the object in place: every holder of the id sees it
HeapBind(h, id, name, addrOrExpr) ==
  [h EXCEPT ![id] = EnvBind(h[id], name, addrOrExpr)]

\* a clone that comes out empty
EnvCloneEmpty(h, id) == Append(h, emptyEnvContent)

\* emptyEnv(env.clone()): a new object holding a copy of the content
EnvClone(h, id) == Append(h, h[id])

(* ---------------------------- ceskm.ts: Store -------------------------- *)
\* a new store that comes with an entry left over
staleStore == [a \in {0} |-> continuation(topk)]

\* new Store(): the default argument {} is a new object on every call
emptyStore == [a \in {} |-> undefined]
\* a bind that writes nothing
StoreBindNothing(s, addr, value) == s

\* Store.bind
StoreBind(s, addr, value) ==
  [a \in (DOMAIN s) \cup {addr} |-> IF a = addr THEN value ELSE s[a]]

(* ---------------------------- ceskm.ts: gensym ------------------------- *)
\* address returned for a given gensymCount, and the count afterwards
gensym(c) == c

\* a gensym that forgets to advance its counter
gensymStuck(c) == c

gensymNext(c) == c + 1

\* a closure whose captured environment records how many Env objects the
\* machine has made so far
closureCountingEnvs(exp, h, id) ==
  [val |-> continuation(Let(<<>>, exp, Len(h) + 1, topk)),
   h |-> Append(h, EnvBind(h[id], "#envs", addrBinding(Len(h))))]

(* closure(_exp, emptyEnv(env.clone())): the closure value and the heap    *)
(* after the new Env object was created.                                   *)
closure(exp, h, id) ==
  [val |-> continuation(Let(<<>>, exp, Len(h) + 1, topk)), h |-> EnvClone(h, id)]

(* ---------------- host hooks (CESKM and the test DebugMachine) --------- *)
VARIABLE hooks   \* the class of the machine instance: "CESKM" keeps the
                 \* default literal and op, "DebugMachine" overrides both

Ok(val, h) == [ok |-> TRUE, val |-> val, h |-> h, err |-> "none"]
\* a failure that comes back as the value null instead of a throw
FailQuietly(err, h) == [ok |-> TRUE, val |-> scalar(Null), h |-> h, err |-> "none"]

Fail(err, h) == [ok |-> FALSE, val |-> undefined, h |-> h, err |-> err]

\* DebugMachine.literal
literal(v, h) ==
  IF v.ty \in {"number", "boolean", "null"}
    THEN Ok(scalar(v), h)
    ELSE Fail("BadLiteral", h)

\* CESKM.literal, the default hook: closure(cbpv_lit(v), this.emptyEnv())
defaultLiteral(v, h) ==
  Ok(continuation(Let(<<>>, cbpv_lit(v), Len(h) + 1, topk)),
     Append(h, emptyEnvContent))

\* a default hook that answers null for an op it does not know
defaultOpReturnsNull(opSym, args, h) == Ok(scalar(Null), h)

\* CESKM.op, the default hook: builds its message from the operands
\* (`"v" in arg` on undefined is a TypeError) and always throws
defaultOp(opSym, args, h) ==
  IF \E i \in DOMAIN args : args[i].vt = "undefined"
    THEN Fail("TypeError", h)
    ELSE Fail("UnknownOp", h)

Arg(args, i) == IF i <= Len(args) THEN args[i] ELSE undefined
HasV(x) == x.vt = "v"
IsNumber(x) == x.v.ty = "number"
\* a typeof test that takes every scalar for a boolean
AnythingIsBoolean(x) == TRUE

IsBoolean(x) == x.v.ty = "boolean"

\* the guard shared by the binary cases of DebugMachine.op:
\* !("v" in args[0]) || !("v" in args[1])
BinaryGuard(args) ==
  IF Arg(args, 1).vt = "undefined" THEN "TypeError"
  ELSE IF ~HasV(Arg(args, 1)) THEN "OpError"
  ELSE IF Arg(args, 2).vt = "undefined" THEN "TypeError"
  ELSE IF ~HasV(Arg(args, 2)) THEN "OpError"
  ELSE "none"

BothNumbers(a, b) == IsNumber(a) /\ IsNumber(b)
BothBooleans(a, b) == IsBoolean(a) /\ IsBoolean(b)
NumbersOrBooleans(a, b) == BothNumbers(a, b) \/ BothBooleans(a, b)

op(opSym, args, h) ==
  LET bin(typeOk(_, _), f(_, _)) ==
        LET g == BinaryGuard(args)
        IN IF g # "none" THEN Fail(g, h)
           ELSE IF ~typeOk(args[1], args[2]) THEN Fail("OpError", h)
           ELSE Ok(scalar(f(args[1].v, args[2].v)), h)
      mul(a, b) == Num(a.n * b.n)
      add(a, b) == Num(a.n + b.n)
      sub(a, b) == Num(a.n - b.n)
      eq(a, b) == Bool(a = b)
      lt(a, b) == Bool(a.n < b.n)
      and(a, b) == Bool(a.n = 1 /\ b.n = 1)
  IN CASE opSym = "op:mul" -> bin(BothNumbers, mul)
       [] opSym = "op:add" -> bin(BothNumbers, add)
       [] opSym = "op:sub" -> bin(BothNumbers, sub)
       [] opSym = "op:eq" -> bin(NumbersOrBooleans, eq)
       [] opSym = "op:lt" -> bin(BothNumbers, lt)
       [] opSym = "op:and" -> bin(BothBooleans, and)
       [] opSym = "op:not" ->
            IF Arg(args, 1).vt = "undefined" THEN Fail("TypeError", h)
            ELSE IF ~HasV(args[1]) THEN Fail("OpError", h)
            ELSE IF ~IsBoolean(args[1]) THEN Fail("OpError", h)
            ELSE Ok(scalar(Bool(args[1].v.n = 0)), h)
       [] OTHER -> defaultOp(opSym, args, h)

\* the op names DebugMachine.op has a case for
DebugMachineOps ==
  {"op:mul", "op:add", "op:sub", "op:div", "op:mod", "op:eq", "op:lt",
   "op:lte", "op:gt", "op:gte", "op:and", "op:or", "op:not"}

\* this.literal and this.op: the hooks of the instance's class
thisLiteral(v, h) ==
  IF hooks = "CESKM" THEN defaultLiteral(v, h) ELSE literal(v, h)
thisOp(opSym, args, h) ==
  IF hooks = "CESKM" THEN defaultOp(opSym, args, h) ELSE op(opSym, args, h)

(* --------------------------- ceskm.ts: positive ------------------------ *)
\* a lookup that treats `_` like any other name
NothingIsDiscard(name) == FALSE

\* "_" === expr.v: the name of the top continuation
IsDiscard(name) == name = "_"

RECURSIVE positive(_, _, _, _)
RECURSIVE positiveAll(_, _, _, _, _)

\* a map that starts from the last operand
positiveAllFromRight(erands, env, store, h, acc) ==
  IF erands = <<>> THEN Ok(acc, h)
  ELSE LET r == positive(erands[Len(erands)], env, store, h)
       IN IF r.ok
            THEN positiveAll(SubSeq(erands, 1, Len(erands) - 1), env, store,
                             r.h, <<r.val>> \o acc)
            ELSE r

\* erands.map(positive): left to right, the first throw ends the map
positiveAll(erands, env, store, h, acc) ==
  IF erands = <<>> THEN Ok(acc, h)
  ELSE LET r == positive(Head(erands), env, store, h)
       IN IF r.ok
            THEN positiveAll(Tail(erands), env, store, r.h, Append(acc, r.val))
            ELSE r

positive(expr, env, store, h) ==
  CASE expr.tag = "cbpv_literal" -> thisLiteral(expr.v, h)
    [] expr.tag = "cbpv_symbol" ->
         IF IsDiscard(expr.name) THEN Ok(continuation(topk), h)
         ELSE IF expr.name \notin DOMAIN h[env] THEN Fail("UnboundSymbol", h)
         ELSE LET addrOrExpr == h[env][expr.name]
              IN IF addrOrExpr.bt = "addr"
                   THEN IF addrOrExpr.a \notin DOMAIN store
                          THEN Fail("UnboundAddress", h)
                          ELSE Ok(store[addrOrExpr.a], h)
                   ELSE LET c == closure(addrOrExpr.d, h, env)
                        IN Ok(c.val, c.h)
    [] expr.tag = "cbpv_suspend" ->
         IF ~cbpv_is_positive(expr.exp)
           THEN LET c == closure(expr.exp, h, env) IN Ok(c.val, c.h)
           ELSE positive(expr.exp, env, store, h)
    [] expr.tag = "cbpv_op" ->
         LET r == positiveAll(expr.erands, env, store, h, <<>>)
         IN IF r.ok THEN thisOp(expr.opSym, r.val, r.h) ELSE r
    [] OTHER -> Fail("InvalidPositive", h)

(* ------------------------------ the state ------------------------------ *)
VARIABLES
  pc,            \* "idle" | "state" (the host holds a State) | "step" |
                 \* "continue" | "done" | "error"
  control,       \* State.control, the local of step
  environment,   \* State.environment: the id of an Env object
  store,         \* State.store
  kontinuation,  \* State.kontinuation, the local of step and continue
  meta,          \* State.meta, one array shared by every State of a run
  value,         \* the value continue is delivering; the result when done
  envs,          \* the heap of Env objects, indexed by id
  gensymCount,   \* CESKM.gensymCount
  err,           \* the kind of the Error step threw
  program,       \* the term the current run was injected with
  runs,          \* how many programs this machine instance was given
  last,          \* history: the name of the last transition taken
  pushed,        \* history: the continuations on the meta-stack, oldest first
  envAtBind,     \* history: address -> content of the Let frame's Env when
                 \* the value was written to the store
  iters,         \* history: loop iterations of step and continue in this call
  stepIn,        \* history: the State (by content) the current step got
  stepEnv,       \* history: the id of the Env object of that State
  stepLog,       \* history: every (State, StepResult) pair, by content
  ast,           \* what Parser.parse returned and build_cbpv was given
  built,         \* what build_cbpv made of it: a term, or the Error thrown
  expression,    \* Parser.expression, the characters of the input
  cursor,        \* Parser.cursor, counted from 0
  parserAst,     \* Parser.ast, the stack of the lists being filled
  calls,         \* the Parser's call stack: where each call returns to
  ppc,           \* where the Parser is: "idle", a method, "returned",
                 \* "thrown"
  atom,          \* the local atom of parse_atom
  start,         \* the local start of parse_string
  parsed         \* what the last call returned; the Error when thrown

\* the machine instance, its State and the history kept about them
machine == <<pc, control, environment, store, kontinuation, meta, value, envs,
             gensymCount, err, program, runs, last, pushed, envAtBind, iters,
             stepIn, stepEnv, stepLog, hooks>>

\* the fields and locals of one Parser
parser == <<expression, cursor, parserAst, calls, ppc, atom, start, parsed>>

vars == <<machine, ast, built, parser>>

(* A State or value as the host sees it (t.same, JSON): Env objects are    *)
(* replaced by their content.                                              *)
RECURSIVE DeepKont(_, _)
RECURSIVE DeepVals(_, _)
DeepVal(v, h) == IF v.vt = "k" THEN continuation(DeepKont(v.k, h)) ELSE v

DeepVals(vs, h) ==
  IF vs = <<>> THEN <<>> ELSE <<DeepVal(Head(vs), h)>> \o DeepVals(Tail(vs), h)

DeepKont(k, h) ==
  CASE k.kt = "top" -> k
    [] k.kt = "args" -> Args(DeepVals(k.args, h), DeepKont(k.k, h))
    [] k.kt = "let" -> Let(k.lets, k.exp, h[k.env], DeepKont(k.k, h))

RECURSIVE DeepMeta(_, _)
DeepMeta(m, h) ==
  IF m = <<>> THEN <<>> ELSE <<DeepKont(Head(m), h)>> \o DeepMeta(Tail(m), h)

DeepState ==
  [control |-> control,
   environment |-> envs[environment],
   store |-> [a \in DOMAIN store |-> DeepVal(store[a], envs)],
   kontinuation |-> DeepKont(kontinuation, envs),
   meta |-> DeepMeta(meta, envs)]

\* a step whose throw comes out as an ordinary new State
DeepResultYieldsState ==
  CASE pc = "done" -> [done |-> TRUE, value |-> DeepVal(value, envs)]
    [] OTHER -> [done |-> FALSE, value |-> DeepState]

\* IteratorResult<State, Value>, or the Error thrown
DeepResult ==
  CASE pc = "done" -> [done |-> TRUE, value |-> DeepVal(value, envs)]
    [] pc = "error" -> [done |-> FALSE, value |-> [thrown |-> err]]
    [] OTHER -> [done |-> FALSE, value |-> DeepState]

(* ------------------------------ programs ------------------------------- *)
N(n) == cbpv_lit(Num(n))
B(b) == cbpv_lit(Bool(b))
S(x) == cbpv_sym(x)

\* ((_ 1) 2)
PingPong == cbpv_app(cbpv_app(S("_"), <<N(1)>>), <<N(2)>>)

\* (let w (! (\ (x) ((? x) x))) ((? w) w))
Omega ==
  cbpv_let(<<"w">>,
           cbpv_suspend(cbpv_lam(<<"x">>, cbpv_app(cbpv_resume(S("x")), <<S("x")>>))),
           cbpv_app(cbpv_resume(S("w")), <<S("w")>>))

\* README: (letrec ((cons (\ (a b) (reset ((shift k k) a b)))))
\*           (let p1 ((? cons) 3 #f) p1))
ConsProgram ==
  cbpv_letrec(
    << <<"cons", cbpv_lam(<<"a", "b">>,
           cbpv_reset(cbpv_app(cbpv_shift("k", S("k")), <<S("a"), S("b")>>)))>> >>,
    cbpv_let(<<"p1">>, cbpv_app(cbpv_resume(S("cons")), <<N(3), B(FALSE)>>), S("p1")))

\* (reset (let x (shift k (let a (k 4) (k a))) (op:mul 2 x)))
TwiceProgram ==
  cbpv_reset(
    cbpv_let(<<"x">>,
      cbpv_shift("k", cbpv_let(<<"a">>, cbpv_app(S("k"), <<N(4)>>),
                                cbpv_app(S("k"), <<S("a")>>))),
      cbpv_op("op:mul", <<N(2), S("x")>>)))

\* (let f (! (\ (x) x)) (let a ((? f) 1) ((? f) 2)))
ResumeTwice ==
  cbpv_let(<<"f">>, cbpv_suspend(cbpv_lam(<<"x">>, S("x"))),
    cbpv_let(<<"a">>, cbpv_app(cbpv_resume(S("f")), <<N(1)>>),
             cbpv_app(cbpv_resume(S("f")), <<N(2)>>)))

\* scenario check 3: (let n (op:add 1 2) (op:mul n 2))
Scenario3 ==
  cbpv_let(<<"n">>, cbpv_op("op:add", <<N(1), N(2)>>), cbpv_op("op:mul", <<S("n"), N(2)>>))

\* scenario check 6: (let f (reset (shift k k)) (let n (f (op:add 10 55)) (op:mul 3 n)))
Scenario6 ==
  cbpv_let(<<"f">>, cbpv_reset(cbpv_shift("k", S("k"))),
    cbpv_let(<<"n">>, cbpv_app(S("f"), <<cbpv_op("op:add", <<N(10), N(55)>>)>>),
             cbpv_op("op:mul", <<N(3), S("n")>>)))

\* scenario check 1: (letrec ((sqr (\ (n) (op:mul n n)))) ((? sqr) 69))
Scenario1 ==
  cbpv_letrec(<< <<"sqr", cbpv_lam(<<"n">>, cbpv_op("op:mul", <<S("n"), S("n")>>))>> >>,
              cbpv_app(cbpv_resume(S("sqr")), <<N(69)>>))

\* (reset (let w (! (let v (op:add 1 2) v)) (if (op:lt 1 2) (? w) 0)))
SuspendResume ==
  cbpv_reset(
    cbpv_let(<<"w">>,
      cbpv_suspend(cbpv_let(<<"v">>, cbpv_op("op:add", <<N(1), N(2)>>), S("v"))),
      cbpv_if(cbpv_op("op:lt", <<N(1), N(2)>>), cbpv_resume(S("w")), N(0))))

\* (reset (shift k k))
ResetShift == cbpv_reset(cbpv_shift("k", S("k")))

\* ((reset (shift k k)) 5)
ResetShiftApplied == cbpv_app(ResetShift, <<N(5)>>)

\* (let f (! (? (! (if #t 1 2)))) (let a (? (! 7)) (? (! f))))
ForceThunks ==
  cbpv_let(<<"f">>,
    cbpv_suspend(cbpv_resume(cbpv_suspend(cbpv_if(B(TRUE), N(1), N(2))))),
    cbpv_let(<<"a">>, cbpv_resume(cbpv_suspend(N(7))),
             cbpv_resume(cbpv_suspend(S("f")))))

\* scenario check 9, the generator:
\* (letrec ((yield (\ (value) (shift k (! (\ (p) ((? p) value k))))))
\*          (next (\ (gen) (let k ((? gen) (! (\ (a b) b))) (k _))))
\*          (peek (\ (gen) ((? gen) (! (\ (a b) a))))))
\*   (let gen (reset (let _ ((? yield) 1) (let _ ((? yield) 2) ((? yield) 3))))
\*   (let n1 ((? peek) gen) (let gen ((? next) gen)
\*   (let n2 ((? peek) gen) (let gen ((? next) gen)
\*   (let n3 ((? peek) gen) (op:add (op:add n1 n2) n3))))))))
Yield(n) == cbpv_app(cbpv_resume(S("yield")), <<N(n)>>)
Peek == cbpv_app(cbpv_resume(S("peek")), <<S("gen")>>)
NextGen == cbpv_app(cbpv_resume(S("next")), <<S("gen")>>)
Scenario9 ==
  cbpv_letrec(
    << <<"yield", cbpv_lam(<<"value">>,
          cbpv_shift("k", cbpv_suspend(cbpv_lam(<<"p">>,
            cbpv_app(cbpv_resume(S("p")), <<S("value"), S("k")>>)))))>>,
       <<"next", cbpv_lam(<<"gen">>,
          cbpv_let(<<"k">>,
            cbpv_app(cbpv_resume(S("gen")),
                     <<cbpv_suspend(cbpv_lam(<<"a", "b">>, S("b")))>>),
            cbpv_app(S("k"), <<S("_")>>)))>>,
       <<"peek", cbpv_lam(<<"gen">>,
          cbpv_app(cbpv_resume(S("gen")),
                   <<cbpv_suspend(cbpv_lam(<<"a", "b">>, S("a")))>>))>> >>,
    cbpv_let(<<"gen">>,
      cbpv_reset(cbpv_let(<<"_">>, Yield(1), cbpv_let(<<"_">>, Yield(2), Yield(3)))),
      cbpv_let(<<"n1">>, Peek,
        cbpv_let(<<"gen">>, NextGen,
          cbpv_let(<<"n2">>, Peek,
            cbpv_let(<<"gen">>, NextGen,
              cbpv_let(<<"n3">>, Peek,
                cbpv_op("op:add",
                  <<cbpv_op("op:add", <<S("n1"), S("n2")>>), S("n3")>>))))))))

\* (op:add (op:nope 1) u): the host op of the first operand throws before
\* the unbound second operand is looked at
OpOrder == cbpv_op("op:add", <<cbpv_op("op:nope", <<N(1)>>), S("u")>>)

\* (_ u (op:nope 1)): the unbound first operand throws first
ApplyOrder == cbpv_app(S("_"), <<S("u"), cbpv_op("op:nope", <<N(1)>>)>>)

\* (op:nope 1 u): the operands are evaluated before the host op is called
OpHookLast == cbpv_op("op:nope", <<N(1), S("u")>>)

\* (let x (shift k (? k)) x): Resume of a captured frame that has a binder
ResumeFrame == cbpv_let(<<"x">>, cbpv_shift("k", cbpv_resume(S("k"))), S("x"))

\* (1 2): a scalar applied to an argument
ScalarApplied == cbpv_app(N(1), <<N(2)>>)

\* (if null 1 2)
IfNull == cbpv_if(cbpv_lit(Null), N(1), N(2))

\* (let x (\ (n) n) x): an Abstract stepped under a Let frame
AbstractUnderLet == cbpv_let(<<"x">>, cbpv_lam(<<"n">>, S("n")), S("x"))

\* (let _ 5 _): the name `_` is bound, then evaluated
DiscardBound == cbpv_let(<<"_">>, N(5), S("_"))

\* (reset (let x (shift k (k 4)) (shift j x))): the second shift is stepped
\* in the environment of the frame the first one captured
ShiftInFrame ==
  cbpv_reset(cbpv_let(<<"x">>, cbpv_shift("k", cbpv_app(S("k"), <<N(4)>>)),
                      cbpv_shift("j", S("x"))))

\* (reset (let a (reset (let b 1 b)) (op:add a 1))): a reset inside a reset
NestedResets ==
  cbpv_reset(
    cbpv_let(<<"a">>, cbpv_reset(cbpv_let(<<"b">>, N(1), S("b"))),
             cbpv_op("op:add", <<S("a"), N(1)>>)))

\* (reset (let x (shift k (let a (k 4) (k a))) (shift j x))): the captured
\* frame is reinstated twice and its body binds a name
FrameTwice ==
  cbpv_reset(
    cbpv_let(<<"x">>,
      cbpv_shift("k", cbpv_let(<<"a">>, cbpv_app(S("k"), <<N(4)>>),
                                cbpv_app(S("k"), <<S("a")>>))),
      cbpv_shift("j", S("x"))))

\* ((\ (a b) b) 1): a function of two parameters applied to one operand
TooFewOperands == cbpv_app(cbpv_lam(<<"a", "b">>, S("b")), <<N(1)>>)

\* (reset (let x (shift k (k)) x)): a continuation applied to no operand
NoOperand ==
  cbpv_reset(cbpv_let(<<"x">>, cbpv_shift("k", cbpv_app(S("k"), <<>>)), S("x")))

\* (letrec ((f (\ (x) x))) y): the body names a symbol nothing binds
LetrecThenUnbound ==
  cbpv_letrec(<< <<"f", cbpv_lam(<<"x">>, S("x"))>> >>, S("y"))

\* negative terms where positive ones belong:
\* (op:add 1 (? 2)), (if (? #t) 1 2), (? (? 1))
NegativeOperand == cbpv_op("op:add", <<N(1), cbpv_resume(N(2))>>)
NegativeCondition == cbpv_if(cbpv_resume(B(TRUE)), N(1), N(2))
NegativeResumed == cbpv_resume(cbpv_resume(N(1)))

\* the programs of the test "ceskm: correctly transforms state on each step"
StepTests ==
  { N(1),
    cbpv_if(B(TRUE), N(1), N(2)),
    cbpv_if(B(FALSE), N(1), N(2)),
    cbpv_shift("k", S("k")),
    cbpv_let(<<"z">>, B(TRUE), S("z")),
    cbpv_letrec(<< <<"a", N(4)>> >>, cbpv_resume(S("a"))),
    cbpv_resume(N(1)),
    cbpv_app(cbpv_lam(<<"n">>, S("n")), <<B(FALSE)>>),
    cbpv_reset(B(TRUE)),
    cbpv_suspend(B(TRUE)),
    S("_"),
    cbpv_op("op:not-implemented", <<N(1)>>),
    cbpv_if(cbpv_suspend(cbpv_lam(<<"n">>, S("n"))), N(1), N(2)),
    cbpv_if(N(5), N(1), N(2)),
    cbpv_lam(<<"n">>, S("n")),
    cbpv_app(cbpv_lam(<<"n">>, S("n")), <<cbpv_resume(N(1))>>),
    cbpv_suspend(cbpv_lam(<<"n">>, S("n"))) }

Programs ==
  {PingPong, Omega, ConsProgram, TwiceProgram, ResumeTwice, SuspendResume,
   Scenario1, Scenario3, Scenario6, ResetShift, ResetShiftApplied,
   ForceThunks, Scenario9, OpOrder, ApplyOrder, OpHookLast, ResumeFrame,
   ScalarApplied, IfNull, AbstractUnderLet, DiscardBound, ShiftInFrame,
   NestedResets, FrameTwice, TooFewOperands, NoOperand,
   LetrecThenUnbound,
   NegativeOperand,
   NegativeCondition, NegativeResumed}
    \cup StepTests

\* the programs a machine instance that has already run one is given next
Reruns == {cbpv_shift("k", S("k")), Scenario3, TwiceProgram}

\* the programs given to a machine that keeps the default hooks:
\* (op:add 1 2), (op:not-implemented 1), (op:nope), (op:nope _),
\* (op:nope 1 u), (if (op:eq 1 1) 1 2), (let n (op:add 1 2) n), 1
DefaultHookPrograms ==
  { cbpv_op("op:add", <<N(1), N(2)>>),
    cbpv_op("op:not-implemented", <<N(1)>>),
    cbpv_op("op:nope", <<>>),
    cbpv_op("op:nope", <<S("_")>>),
    OpHookLast,
    cbpv_if(cbpv_op("op:eq", <<N(1), N(1)>>), N(1), N(2)),
    cbpv_let(<<"n">>, cbpv_op("op:add", <<N(1), N(2)>>), S("n")),
    N(1) }

(* ------------------------- parser.ts: build_cbpv ----------------------- *)
\* the values Parser.parse returns: a number, a boolean, a string (a symbol,
\* or a string literal that keeps its quotes) or an array of them
astNumber(n) == [at |-> "number", num |-> n]
astString(s) == [at |-> "string", str |-> s]
astArray(items) == [at |-> "array", items |-> items]
\* what reading past the end of an array or a string gives
astUndefined == [at |-> "undefined"]

\* the characters of the strings the inputs are written with
Spelling ==
  [s \in {"x", "k", "s", "\"s\"", "op:o", "op:", "op", "xop:"} |->
     CASE s = "\"s\"" -> <<"\"", "s", "\"">>
       [] s = "op:o" -> <<"o", "p", ":", "o">>
       [] s = "op:" -> <<"o", "p", ":">>
       [] s = "op" -> <<"o", "p">>
       [] s = "xop:" -> <<"x", "o", "p", ":">>
       [] OTHER -> <<s>>]
Spelled(chars) == CHOOSE s \in DOMAIN Spelling : Spelling[s] = chars

\* a test that finds the prefix nowhere
startsNothing(s, prefix) == FALSE

\* String.prototype.startsWith
startsWith(s, prefix) ==
  /\ Len(Spelling[s]) >= Len(Spelling[prefix])
  /\ SubSeq(Spelling[s], 1, Len(Spelling[prefix])) = Spelling[prefix]

\* ast[i], for i counted from 0
Index(a, i) ==
  CASE a.at = "array" ->
         IF i < Len(a.items) THEN a.items[i + 1] ELSE astUndefined
    [] a.at = "string" ->
         IF i < Len(Spelling[a.str])
           THEN astString(Spelling[a.str][i + 1]) ELSE astUndefined
    [] OTHER -> astUndefined

\* a name that was not checked to be a string, written as the property key
\* Env.bind uses it as
PropertyKey(a) ==
  CASE a.at = "string" -> a.str
    [] a.at = "number" -> <<"0", "1", "2", "3", "4", "5", "6", "7", "8", "9">>[a.num + 1]
    [] a.at = "undefined" -> "undefined"

Built(t) == [ok |-> TRUE, term |-> t]

\* "string" === typeof a
IsString(a) == a.at = "string"

SyntaxError(e) == [ok |-> FALSE, err |-> e]

RECURSIVE build_cbpv(_)
\* items.map(build_cbpv): the first throw ends the map
RECURSIVE buildAll(_, _)
buildAll(items, acc) ==
  IF items = <<>> THEN Built(acc)
  ELSE LET r == build_cbpv(Head(items))
       IN IF r.ok THEN buildAll(Tail(items), Append(acc, r.term)) ELSE r

\* ast[1].map(binding => [binding[0], build_cbpv(binding[1])])
RECURSIVE buildBindings(_, _)
buildBindings(items, acc) ==
  IF items = <<>> THEN Built(acc)
  ELSE LET r == build_cbpv(Index(Head(items), 1))
       IN IF r.ok
            THEN buildBindings(Tail(items),
                   Append(acc, <<PropertyKey(Index(Head(items), 0)), r.term>>))
            ELSE r

build_cbpv(a) ==
  IF a.at = "array"
    THEN LET head == Index(a, 0)
             kw == IF head.at = "string" THEN head.str ELSE ""
             a1 == Index(a, 1)
             rest == buildAll(SubSeq(a.items, 2, Len(a.items)), <<>>)
             b1 == build_cbpv(a1)
             b2 == build_cbpv(Index(a, 2))
             b3 == build_cbpv(Index(a, 3))
         IN CASE kw = "\\" ->
                   IF a1.at # "array" THEN SyntaxError("LamArgsNotList")
                   ELSE IF \E i \in DOMAIN a1.items : ~IsString(a1.items[i])
                     THEN SyntaxError("LamArgNotSymbol")
                   ELSE IF ~b2.ok THEN b2
                   ELSE Built(cbpv_lam([i \in DOMAIN a1.items |-> a1.items[i].str],
                                       b2.term))
              [] kw = "let" ->
                   IF ~IsString(a1) /\ a1.at # "array"
                     THEN SyntaxError("LetBinder")
                   ELSE IF ~b2.ok THEN b2
                   ELSE IF ~b3.ok THEN b3
                   ELSE Built(cbpv_let(
                          IF a1.at = "array"
                            THEN [i \in DOMAIN a1.items |-> PropertyKey(a1.items[i])]
                            ELSE <<PropertyKey(a1)>>,
                          b2.term, b3.term))
              [] kw = "letrec" ->
                   IF a1.at # "array" THEN SyntaxError("LetrecBindings")
                   ELSE LET bs == buildBindings(a1.items, <<>>)
                        IN IF ~bs.ok THEN bs
                           ELSE IF ~b2.ok THEN b2
                           ELSE Built(cbpv_letrec(bs.term, b2.term))
              [] kw = "shift" ->
                   IF ~IsString(a1) THEN SyntaxError("ShiftName")
                   ELSE IF ~b2.ok THEN b2
                   ELSE Built(cbpv_shift(a1.str, b2.term))
              [] kw = "reset" -> IF b1.ok THEN Built(cbpv_reset(b1.term)) ELSE b1
              [] kw = "?" -> IF b1.ok THEN Built(cbpv_resume(b1.term)) ELSE b1
              [] kw = "!" -> IF b1.ok THEN Built(cbpv_suspend(b1.term)) ELSE b1
              [] kw = "if" ->
                   IF ~b1.ok THEN b1
                   ELSE IF ~b2.ok THEN b2
                   ELSE IF ~b3.ok THEN b3
                   ELSE Built(cbpv_if(b1.term, b2.term, b3.term))
              [] OTHER ->
                   IF head.at = "string" /\ startsWith(head.str, "op:")
                     THEN IF rest.ok THEN Built(cbpv_op(head.str, rest.term))
                          ELSE rest
                     ELSE LET b0 == build_cbpv(head)
                          IN IF ~b0.ok THEN b0
                             ELSE IF ~rest.ok THEN rest
                             ELSE Built(cbpv_app(b0.term, rest.term))
    ELSE CASE a.at = "number" -> Built(cbpv_lit(Num(a.num)))
           [] a.at = "string" ->
                IF Spelling[a.str][1] = "\""
                  THEN Built(cbpv_lit([ty |-> "string",
                           str |-> Spelled(SubSeq(Spelling[a.str], 2,
                                                  Len(Spelling[a.str]) - 1))]))
                  ELSE Built(cbpv_sym(a.str))
           [] OTHER -> SyntaxError("InvalidTerm")

\* the heads build_cbpv has a case for (and the head λ, a second spelling
\* of \)
Keywords == {"\\", "let", "letrec", "shift", "reset", "?", "!", "if"}

\* the elements the input lists are made of: x, 1, "s", (x k), (x 1)
Elements ==
  {astString("x"), astNumber(1), astString("\"s\""),
   astArray(<<astString("x"), astString("k")>>),
   astArray(<<astString("x"), astNumber(1)>>)}

\* the heads of the input lists: the keywords, names with and without the
\* prefix op:, and heads that are not names
Heads ==
  {astString(s) : s \in {"\\", "let", "letrec", "shift", "reset", "?", "!",
                         "if", "op:o", "op:", "op", "xop:", "x", "\"s\""}}
    \cup {astNumber(1), astArray(<<astString("x"), astString("k")>>)}

RECURSIVE Lists(_)
\* the sequences of at most n elements
Lists(n) ==
  IF n = 0 THEN {<<>>}
  ELSE Lists(n - 1) \cup
       {Append(l, e) : l \in {m \in Lists(n - 1) : Len(m) = n - 1}, e \in Elements}

\* the inputs build_cbpv is given
Asts ==
  Elements \cup {astArray(<<>>)}
    \cup {astArray(<<h>> \o l) : h \in Heads, l \in Lists(MaxElems)}

(* ------------------------------- Init ---------------------------------- *)
Init ==
  /\ pc = "idle"
  /\ control = N(0)
  /\ environment = 1
  /\ store = emptyStore
  /\ kontinuation = topk
  /\ meta = <<>>
  /\ value = undefined
  /\ envs = <<emptyEnvContent>>
  /\ gensymCount = 0
  /\ err = "none"
  /\ program = N(0)
  /\ runs = 0
  /\ last = "new"
  /\ pushed = <<>>
  /\ envAtBind = emptyStore
  /\ iters = 0
  /\ stepIn = [control |-> N(0)]
  /\ stepEnv = 0
  /\ stepLog = {}
  /\ hooks \in {"CESKM", "DebugMachine"}
  /\ ast = astUndefined
  /\ built = SyntaxError("none")
  /\ expression = <<>>
  /\ cursor = 0
  /\ parserAst = <<>>
  /\ calls = <<>>
  /\ ppc = "idle"
  /\ atom = <<>>
  /\ start = 0
  /\ parsed = astUndefined

(* --------------------------- shared pieces ----------------------------- *)
\* the guards that keep the model finite: the host stops calling step on a
\* State that has grown to the bounds, and one call is followed for MaxIter
\* iterations of its loops
Room ==
  /\ Cardinality(DOMAIN store) < MaxStore
  /\ Len(meta) < MaxMeta
  /\ Len(envs) < MaxEnvs

Tick ==
  /\ iters < MaxIter /\ iters' = iters + 1
  /\ UNCHANGED <<hooks, ast, built, parser>>

\* a push that puts the new entry at the far end
MetaPushBack(m, k) == m \o <<k>>

\* a push that throws away what was saved before
MetaUnshiftAlone(m, k) == <<k>>

\* meta.unshift(k): the new entry goes to the front
MetaUnshift(m, k) == <<k>> \o m

\* a pop after which the oldest entry is the one that has left
MetaDropsLast(m) == SubSeq(m, 1, Len(m) - 1)

\* meta.shift(): the front entry leaves
MetaShifted(m) == Tail(m)
MetaFront(m) == Head(m)

\* a continue that halts on Top whatever the meta-stack holds
HaltsIgnoringMeta(k, m) == k.kt = "top"

\* continue halts only on Top with an empty meta-stack
Halts(k, m) == k.kt = "top" /\ Len(m) = 0

\* the Env content a value's Let frame refers to, when it is written
SnapOf(v, h) ==
  IF v.vt = "k" /\ v.k.kt = "let" THEN h[v.k.env] ELSE emptyEnvContent

\* a loop that stores the first value at every address
RECURSIVE BindEachFirstValue(_, _, _, _, _, _, _)
BindEachFirstValue(names, vals, i, id, h, st, c) ==
  IF i > Len(names) THEN [h |-> h, store |-> st, count |-> c]
  ELSE BindEachFirstValue(names, vals, i + 1, id,
                          HeapBind(h, id, names[i], addrBinding(gensym(c))),
                          StoreBind(st, gensym(c), Arg(vals, 1)),
                          gensymNext(c))

\* for (i...) { addr = gensym(); environment.bind(names[i], addr);
\*              store.bind(addr, vals[i]) }
RECURSIVE BindEach(_, _, _, _, _, _, _)
BindEach(names, vals, i, id, h, st, c) ==
  IF i > Len(names) THEN [h |-> h, store |-> st, count |-> c]
  ELSE BindEach(names, vals, i + 1, id,
                HeapBind(h, id, names[i], addrBinding(gensym(c))),
                StoreBind(st, gensym(c), Arg(vals, i)),
                gensymNext(c))

\* history of the store writes of one transition
Snapshots(st2, h) ==
  [a \in DOMAIN st2 |->
     IF a \in DOMAIN envAtBind THEN envAtBind[a] ELSE SnapOf(st2[a], h)]

\* step returns (a State, a Value) or throws: the pair is logged
Returned == stepLog' = stepLog \cup {[inp |-> stepIn, out |-> DeepResult']}

\* a throw that comes back to the host as if step had returned the State
ThrowYields(e, h, lbl) ==
  /\ pc' = "state"
  /\ err' = e
  /\ envs' = h
  /\ last' = lbl
  /\ UNCHANGED <<control, environment, store, kontinuation, value,
                 gensymCount, program, runs, envAtBind, stepIn, stepEnv>>

Throw(e, h, lbl) ==
  /\ pc' = "error"
  /\ err' = e
  /\ envs' = h
  /\ last' = lbl
  /\ UNCHANGED <<control, environment, store, kontinuation, value,
                 gensymCount, program, runs, envAtBind, stepIn, stepEnv>>

(* ------------------------------ the host ------------------------------- *)
\* CESKM.inject: a fresh State; the machine instance keeps its gensymCount.
\* Env objects of an earlier run are unreachable and leave the heap.
inject(t) ==
  /\ pc \in {"idle", "done", "error"}
  /\ runs < MaxRuns
  /\ pc' = "state"
  /\ control' = t
  /\ envs' = <<emptyEnvContent>>
  /\ environment' = 1
  /\ store' = emptyStore
  /\ kontinuation' = topk
  /\ meta' = <<>>
  /\ value' = undefined
  /\ err' = "none"
  /\ program' = t
  /\ runs' = runs + 1
  /\ last' = "inject"
  /\ pushed' = <<>>
  /\ envAtBind' = emptyStore
  /\ iters' = 0
  /\ UNCHANGED <<gensymCount, stepIn, stepEnv, stepLog, hooks, ast, built,
                 parser>>

Inject ==
  \E t \in (IF hooks = "CESKM" THEN DefaultHookPrograms
            ELSE IF runs = 0 THEN Programs ELSE Reruns) : inject(t)

\* the host's loop: result = this.step(result.value)
CallStep ==
  /\ pc = "state" /\ Room
  /\ pc' = "step"
  /\ iters' = 0
  /\ stepIn' = DeepState
  /\ stepEnv' = environment
  /\ last' = "call"
  /\ UNCHANGED <<control, environment, store, kontinuation, meta, value, envs,
                 gensymCount, err, program, runs, pushed, envAtBind, stepLog,
                 hooks, ast, built, parser>>

(* ------------------------- step: the while loop ------------------------ *)
StepApply ==
  /\ pc = "step" /\ Tick
  /\ control.tag = "cbpv_apply"
  /\ LET r == positiveAll(control.erands, environment, store, envs, <<>>)
     IN IF r.ok
          THEN /\ control' = control.op
               /\ kontinuation' = Args(r.val, kontinuation)
               /\ envs' = r.h
               /\ last' = "apply"
               /\ UNCHANGED <<pc, environment, store, meta, value, gensymCount,
                              err, program, runs, pushed, envAtBind, stepIn, stepEnv,
                              stepLog>>
          ELSE /\ Throw(r.err, r.h, "throw_apply")
               /\ UNCHANGED <<meta, pushed>>
               /\ Returned

StepLet ==
  /\ pc = "step" /\ Tick
  /\ control.tag = "cbpv_let"
  /\ control' = control.exp
  /\ envs' = EnvClone(envs, environment)
  /\ kontinuation' = Let(control.v, control.body, Len(envs) + 1, kontinuation)
  /\ last' = "let"
  /\ UNCHANGED <<pc, environment, store, meta, value, gensymCount, err,
                 program, runs, pushed, envAtBind, stepIn, stepEnv, stepLog>>

\* a letrec that binds nothing
BindNoDefinitions(bindings, i, id, h) == h

RECURSIVE BindDefinitions(_, _, _, _)
BindDefinitions(bindings, i, id, h) ==
  IF i > Len(bindings) THEN h
  ELSE BindDefinitions(bindings, i + 1, id,
                       HeapBind(h, id, bindings[i][1], defBinding(bindings[i][2])))

StepLetrec ==
  /\ pc = "step" /\ Tick
  /\ control.tag = "cbpv_letrec"
  /\ control' = control.body
  /\ envs' = BindDefinitions(control.bindings, 1, environment, envs)
  /\ last' = "letrec"
  /\ UNCHANGED <<pc, environment, store, kontinuation, meta, value,
                 gensymCount, err, program, runs, pushed, envAtBind, stepIn, stepEnv,
                 stepLog>>

StepShift ==
  /\ pc = "step" /\ Tick
  /\ control.tag = "cbpv_shift"
  /\ LET addr == gensym(gensymCount)
     IN /\ gensymCount' = gensymNext(gensymCount)
        /\ control' = control.body
        /\ envs' = HeapBind(envs, environment, control.karg, addrBinding(addr))
        /\ store' = StoreBind(store, addr, continuation(kontinuation))
        /\ envAtBind' = Snapshots(store', envs)
  /\ kontinuation' = topk
  /\ pc' = "state"
  /\ last' = "shift"
  /\ UNCHANGED <<environment, meta, value, err, program, runs, pushed, stepIn, stepEnv>>
  /\ Returned

\* a reset that leaves the continuation in force in place
ResetKeeps(k) == k

\* kontinuation = topk(): the term under a reset starts from Top
ResetInstalls(k) == topk

StepReset ==
  /\ pc = "step" /\ Tick
  /\ control.tag = "cbpv_reset"
  /\ control' = control.exp
  /\ meta' = MetaUnshift(meta, kontinuation)
  /\ pushed' = Append(pushed, kontinuation)
  /\ kontinuation' = ResetInstalls(kontinuation)
  /\ pc' = "state"
  /\ last' = "reset"
  /\ UNCHANGED <<environment, store, value, envs, gensymCount, err, program,
                 runs, envAtBind, stepIn, stepEnv>>
  /\ Returned

\* a test that takes the else branch whatever the condition is
NeverTruthy(cv) == FALSE

\* cv.v ? t : e
Truthy(cv) == cv.v.n = 1

StepIf ==
  /\ pc = "step" /\ Tick
  /\ control.tag = "cbpv_if"
  /\ LET cv == positive(control.c, environment, store, envs)
     IN IF ~cv.ok
          THEN Throw(cv.err, cv.h, "throw_if")
          ELSE IF cv.val.vt = "undefined"
          THEN Throw("TypeError", cv.h, "throw_if")
          ELSE IF ~HasV(cv.val) \/ ~IsBoolean(cv.val)
          THEN Throw("IfRequiresBool", cv.h, "throw_if")
          ELSE /\ control' = IF Truthy(cv.val) THEN control.t ELSE control.e
               /\ envs' = cv.h
               /\ pc' = "state"
               /\ last' = "if"
               /\ UNCHANGED <<environment, store, kontinuation, value,
                              gensymCount, err, program, runs, envAtBind,
                              stepIn, stepEnv>>
  /\ UNCHANGED <<meta, pushed>>
  /\ Returned

\* a Resume that never jumps and always delivers the value
ResumeNeverJumps(val) == FALSE

\* Resume jumps into the frame when the value wraps a Let frame
ResumeJumps(val) == val.vt = "k" /\ val.k.kt = "let"

StepResume ==
  /\ pc = "step" /\ Tick
  /\ control.tag = "cbpv_resume"
  /\ LET r == positive(control.v, environment, store, envs)
     IN IF ~r.ok
          THEN Throw(r.err, r.h, "throw_resume")
          ELSE IF r.val.vt = "undefined"
          THEN Throw("TypeError", r.h, "throw_resume")
          ELSE IF ResumeJumps(r.val)
          THEN /\ control' = r.val.k.exp
               /\ environment' = r.val.k.env
               /\ envs' = r.h
               /\ pc' = "state"
               /\ last' = "resume_jump"
               /\ UNCHANGED <<store, kontinuation, value, gensymCount, err,
                              program, runs, envAtBind, stepIn, stepEnv>>
          ELSE /\ value' = r.val
               /\ envs' = r.h
               /\ pc' = "continue"
               /\ last' = "resume_continue"
               /\ UNCHANGED <<control, environment, store, kontinuation,
                              gensymCount, err, program, runs, envAtBind,
                              stepIn, stepEnv>>
  /\ UNCHANGED <<meta, pushed>>
  /\ IF pc' = "continue" THEN UNCHANGED stepLog ELSE Returned

StepAbstract ==
  /\ pc = "step" /\ Tick
  /\ control.tag = "cbpv_abstract"
  /\ IF kontinuation.kt = "args"
       THEN LET b == BindEach(control.args, kontinuation.args, 1, environment,
                              envs, store, gensymCount)
            IN /\ envs' = b.h
               /\ store' = b.store
               /\ gensymCount' = b.count
               /\ envAtBind' = Snapshots(b.store, envs)
               /\ control' = control.body
               /\ kontinuation' = kontinuation.k
               /\ pc' = "state"
               /\ last' = "abstract"
               /\ UNCHANGED <<environment, value, err, program, runs, stepIn, stepEnv>>
       ELSE Throw("ArityOrContext", envs, "throw_abstract")
  /\ UNCHANGED <<meta, pushed>>
  /\ Returned

\* the default case: control is positive (or not a term step knows)
StepPositive ==
  /\ pc = "step" /\ Tick
  /\ cbpv_is_positive(control)
  /\ UNCHANGED <<meta, pushed>>
  /\ LET r == positive(control, environment, store, envs)
     IN IF r.ok
          THEN /\ value' = r.val
               /\ envs' = r.h
               /\ pc' = "continue"
               /\ last' = "positive"
               /\ UNCHANGED <<control, environment, store, kontinuation,
                              gensymCount, err, program, runs, envAtBind,
                              stepIn, stepEnv, stepLog>>
          ELSE Throw(r.err, r.h, "throw_positive") /\ Returned

(* ----------------------- continue: the while loop ---------------------- *)
\* an Args case that hands on the first operand instead of the frame
ArgsDeliversFirst(frame) == Arg(frame.args, 1)

\* what the Args case hands on as the value being delivered
ArgsDelivers(frame) == continuation(frame)

ContArgs ==
  /\ pc = "continue" /\ Tick
  /\ kontinuation.kt = "args"
  /\ meta' = MetaUnshift(meta, kontinuation.k)
  /\ pushed' = Append(pushed, kontinuation.k)
  /\ IF value.vt = "undefined"
       THEN Throw("TypeError", envs, "throw_args") /\ Returned
       ELSE IF value.vt # "k"
       THEN Throw("ExpectedContinuation", envs, "throw_args") /\ Returned
       ELSE /\ kontinuation' = value.k
            /\ value' = ArgsDelivers(kontinuation)
            /\ last' = "args"
            /\ UNCHANGED <<pc, control, environment, store, envs, gensymCount,
                           err, program, runs, envAtBind, stepIn, stepEnv, stepLog>>

\* the Let case destructures a delivered Args frame, one value per name
LetDestructures(val) == val.vt = "k" /\ val.k.kt = "args"

\* _let[0]: reading past the end of the array names the property "undefined"
FirstName(lets) == IF Len(lets) >= 1 THEN lets[1] ELSE "undefined"

ContLet ==
  /\ pc = "continue" /\ Tick
  /\ kontinuation.kt = "let"
  /\ IF value.vt = "undefined"
       THEN Throw("TypeError", envs, "throw_letk")
       ELSE LET b == IF LetDestructures(value)
                       THEN BindEach(kontinuation.lets, value.k.args, 1,
                                     kontinuation.env, envs, store, gensymCount)
                       ELSE BindEach(<<FirstName(kontinuation.lets)>>, <<value>>,
                                     1, kontinuation.env, envs, store,
                                     gensymCount)
            IN /\ envs' = b.h
               /\ store' = b.store
               /\ gensymCount' = b.count
               /\ envAtBind' = Snapshots(b.store, envs)
               /\ control' = kontinuation.exp
               /\ environment' = kontinuation.env
               /\ kontinuation' = kontinuation.k
               /\ pc' = "state"
               /\ last' = "letk"
               /\ UNCHANGED <<value, err, program, runs, stepIn, stepEnv>>
  /\ UNCHANGED <<meta, pushed>>
  /\ Returned

ContTop ==
  /\ pc = "continue" /\ Tick
  /\ kontinuation.kt = "top"
  /\ IF Halts(kontinuation, meta)
       THEN /\ pc' = "done"
            /\ last' = "top_done"
            /\ UNCHANGED <<kontinuation, meta, pushed>>
            /\ UNCHANGED <<control, environment, store, value, envs,
                           gensymCount, err, program, runs, envAtBind, stepIn, stepEnv>>
            /\ Returned
       ELSE /\ kontinuation' = MetaFront(meta)
            /\ meta' = MetaShifted(meta)
            /\ pushed' = SubSeq(pushed, 1, Len(pushed) - 1)
            /\ last' = "top_pop"
            /\ UNCHANGED <<pc, control, environment, store, value, envs,
                           gensymCount, err, program, runs, envAtBind, stepIn, stepEnv,
                           stepLog>>

(* ------------------------------ the system ----------------------------- *)
Next ==
  \/ Inject
  \/ CallStep
  \/ StepApply
  \/ StepLet
  \/ StepLetrec
  \/ StepShift
  \/ StepReset
  \/ StepIf
  \/ StepResume
  \/ StepAbstract
  \/ StepPositive
  \/ ContArgs
  \/ ContLet
  \/ ContTop

Spec == Init /\ [][Next]_vars

\* the host keeps calling step, and a call keeps executing
FairSpec == Spec /\ WF_vars(Next)

\* parse_cbpv: build_cbpv applied to what the Parser returned; build_cbpv
\* keeps nothing between calls, so one call is followed
Build ==
  \E a \in Asts :
    /\ ast = astUndefined
    /\ ast' = a
    /\ built' = build_cbpv(a)
    /\ UNCHANGED <<machine, parser>>

BuildSpec == Init /\ [][Build]_vars

(* --------------------------- parser.ts: Parser ------------------------- *)
\* the characters the inputs are written with
Alphabet == {"(", ")", ";", "\n", "\"", " ", "a", "1", "#", "t"}

Inputs == UNION {[1..n -> Alphabet] : n \in 0..MaxInput}

astBoolean(b) == [at |-> "boolean", bool |-> b]
\* a string the Parser returns, by its characters
astText(chars) == [at |-> "string", chars |-> chars]

\* this.expression[i]: undefined at and past the end of the string
Char(i) == IF i < Len(expression) THEN expression[i + 1] ELSE "undefined"

\* /\s/
IsSpace(c) == c \in {" ", "\n"}

\* /\s+|\)/ of parse_atom
terminator(c) == IsSpace(c) \/ c = ")"

isNaN(chars) == \E i \in DOMAIN chars : chars[i] # "1"

RECURSIVE Number(_)
Number(chars) ==
  IF chars = <<>> THEN 0
  ELSE 10 * Number(SubSeq(chars, 1, Len(chars) - 1)) + 1

\* this.cursor++. A cursor at or past the end of the input reads undefined
\* wherever it stands, and the methods use it for nothing else, so the
\* cursors from MaxCursor on are followed as one.
Advance(c) == IF c < MaxCursor THEN c + 1 ELSE c

\* a call pushes the place it returns to; a return pops it
Call(method, back) == ppc' = method /\ calls' = <<back>> \o calls

Return(v) == parsed' = v /\ ppc' = Head(calls) /\ calls' = Tail(calls)

ThrowError(e) == parsed' = SyntaxError(e) /\ ppc' = "thrown" /\ calls' = calls

\* new Parser(e).parse()
parse ==
  \E e \in Inputs :
    /\ ppc = "idle"
    /\ expression' = e
    /\ cursor' = 0
    /\ parserAst' = <<>>
    /\ Call("parse_expression", "returned")
    /\ UNCHANGED <<atom, start, parsed, machine, ast, built>>

parse_expression ==
  /\ ppc = "parse_expression"
  /\ Call("whitespace", "parse_expression_test")
  /\ UNCHANGED <<expression, cursor, parserAst, atom, start, parsed,
                 machine, ast, built>>

\* after a comment the method goes on to parse_atom; parse_list and
\* parse_atom return to the caller of parse_expression
parse_expression_test ==
  /\ ppc = "parse_expression_test"
  /\ CASE Char(cursor) = ";" -> Call("parse_comment", "parse_atom")
       [] Char(cursor) = "(" -> ppc' = "parse_list" /\ calls' = calls
       [] OTHER -> ppc' = "parse_atom" /\ calls' = calls
  /\ UNCHANGED <<expression, cursor, parserAst, atom, start, parsed,
                 machine, ast, built>>

\* the test of while ('\n' !== this.expression[this.cursor])
parse_comment ==
  /\ ppc = "parse_comment"
  /\ IF "\n" # Char(cursor)
       THEN ppc' = "parse_comment_body" /\ UNCHANGED <<calls, parsed>>
       ELSE Return(astUndefined)
  /\ UNCHANGED <<expression, cursor, parserAst, atom, start, machine, ast,
                 built>>

\* its body: this.cursor++
parse_comment_body ==
  /\ ppc = "parse_comment_body"
  /\ cursor' = Advance(cursor)
  /\ ppc' = "parse_comment"
  /\ UNCHANGED <<expression, parserAst, calls, atom, start, parsed, machine,
                 ast, built>>

\* this.ast.push([]); this.expect('('); this.parse_list_entries()
parse_list ==
  /\ ppc = "parse_list"
  /\ parserAst' = Append(parserAst, <<>>)
  /\ IF Char(cursor) = "("
       THEN /\ cursor' = Advance(cursor)
            /\ Call("parse_list_entries", "parse_list_end")
            /\ parsed' = parsed
       ELSE ThrowError("Unexpected token") /\ cursor' = cursor
  /\ UNCHANGED <<expression, atom, start, machine, ast, built>>

\* this.expect(')'); return this.ast[0]
parse_list_end ==
  /\ ppc = "parse_list_end"
  /\ IF Char(cursor) = ")"
       THEN cursor' = Advance(cursor) /\ Return(astArray(parserAst[1]))
       ELSE ThrowError("Unexpected token") /\ cursor' = cursor
  /\ UNCHANGED <<expression, parserAst, atom, start, machine, ast, built>>

\* the head of the loop of parse_list_entries
parse_list_entries ==
  /\ ppc = "parse_list_entries"
  /\ Call("whitespace", "parse_list_entries_test")
  /\ UNCHANGED <<expression, cursor, parserAst, atom, start, parsed,
                 machine, ast, built>>

parse_list_entries_test ==
  /\ ppc = "parse_list_entries_test"
  /\ IF Char(cursor) = ")"
       THEN Return(astUndefined)
       ELSE Call("parse_expression", "parse_list_entries_push") /\ parsed' = parsed
  /\ UNCHANGED <<expression, cursor, parserAst, atom, start, machine, ast,
                 built>>

\* the entry parse_expression returned goes into the list on top of the
\* stack; a list comes off the stack first; the loop starts over
parse_list_entries_push ==
  /\ ppc = "parse_list_entries_push"
  /\ LET isArray == parsed.at = "array"
         stack == IF isArray THEN SubSeq(parserAst, 1, Len(parserAst) - 1)
                  ELSE parserAst
         entry == IF isArray THEN astArray(parserAst[Len(parserAst)])
                  ELSE parsed
     IN parserAst' =
          IF parsed.at = "string" /\ parsed.chars = <<>>
            THEN parserAst
            ELSE [stack EXCEPT ![Len(stack)] = Append(@, entry)]
  /\ ppc' = "parse_list_entries"
  /\ UNCHANGED <<expression, cursor, calls, atom, start, parsed, machine, ast,
                 built>>

\* the body of the loop of parse_string:
\* if ('"' === this.expression[this.cursor]) finished = true; this.cursor++
parse_string ==
  /\ ppc = "parse_string"
  /\ cursor' = Advance(cursor)
  /\ ppc' = IF "\"" = Char(cursor) THEN "parse_string_finished"
            ELSE "parse_string_while"
  /\ UNCHANGED <<expression, parserAst, calls, atom, start, parsed, machine,
                 ast, built>>

\* the test of while (!finished), and what follows the loop:
\* this.expression.slice(start, this.cursor-1) between two quotes
parse_string_while ==
  /\ ppc \in {"parse_string_while", "parse_string_finished"}
  /\ IF ppc = "parse_string_finished"
       THEN Return(astText(<<"\"">>
                             \o SubSeq(expression, start + 1, cursor - 1)
                             \o <<"\"">>))
       ELSE ppc' = "parse_string" /\ UNCHANGED <<calls, parsed>>
  /\ UNCHANGED <<expression, cursor, parserAst, atom, start, machine, ast,
                 built>>

parse_atom ==
  /\ ppc = "parse_atom"
  /\ IF "\"" = Char(cursor)
       THEN /\ cursor' = Advance(cursor)
            /\ start' = Advance(cursor)
            /\ ppc' = "parse_string"
            /\ atom' = atom
       ELSE /\ atom' = <<>>
            /\ ppc' = "parse_atom_loop"
            /\ UNCHANGED <<cursor, start>>
  /\ UNCHANGED <<expression, parserAst, calls, parsed, machine, ast, built>>

\* the loop of parse_atom and what follows it
parse_atom_loop ==
  /\ ppc = "parse_atom_loop"
  /\ IF Char(cursor) # "undefined" /\ ~terminator(Char(cursor))
       THEN /\ atom' = Append(atom, Char(cursor))
            /\ cursor' = Advance(cursor)
            /\ UNCHANGED <<ppc, calls, parsed>>
       ELSE /\ UNCHANGED <<atom, cursor>>
            /\ CASE atom # <<>> /\ ~isNaN(atom) -> Return(astNumber(Number(atom)))
                 [] atom # <<>> /\ isNaN(atom) /\ atom[1] = "#" ->
                      IF Len(atom) >= 2 /\ atom[2] = "t"
                        THEN Return(astBoolean(TRUE))
                      ELSE IF Len(atom) >= 2 /\ atom[2] = "f"
                        THEN Return(astBoolean(FALSE))
                      ELSE ThrowError("boolean is either #t or #f")
                 [] OTHER -> Return(astText(atom))
  /\ UNCHANGED <<expression, parserAst, start, machine, ast, built>>

whitespace ==
  /\ ppc = "whitespace"
  /\ IF Char(cursor) # "undefined" /\ IsSpace(Char(cursor))
       THEN cursor' = Advance(cursor) /\ UNCHANGED <<ppc, calls, parsed>>
       ELSE cursor' = cursor /\ Return(astUndefined)
  /\ UNCHANGED <<expression, parserAst, atom, start, machine, ast, built>>

ParserNext ==
  \/ parse
  \/ parse_expression
  \/ parse_expression_test
  \/ parse_comment
  \/ parse_comment_body
  \/ parse_list
  \/ parse_list_end
  \/ parse_list_entries
  \/ parse_list_entries_test
  \/ parse_list_entries_push
  \/ parse_string
  \/ parse_string_while
  \/ parse_atom
  \/ parse_atom_loop
  \/ whitespace

ParserSpec == Init /\ [][ParserNext]_vars

\* the Parser runs on: a method that can take a step takes it
ParserFairSpec == ParserSpec /\ WF_vars(ParserNext)

\* store.lookup(environment.lookup(name)) in the current State
BoundValue(name) == store[envs[environment][name].a]

(* ------------------------------ the claims ----------------------------- *)

\* C1: step reports done only while a value is being delivered to Top with
\* an empty meta-stack; a value that reaches Top while the meta-stack is not
\* empty pops the most recently pushed continuation, which becomes the
\* current one, and that iteration does not report done.
C1_HaltOnlyOnEmptyTop ==
  [][/\ (pc' = "done" /\ pc # "done") =>
          (pc = "continue" /\ kontinuation.kt = "top" /\ meta = <<>>)
     /\ (pc = "continue" /\ kontinuation.kt = "top" /\ meta # <<>>) =>
          /\ kontinuation' = pushed[Len(pushed)]
          /\ pushed' = SubSeq(pushed, 1, Len(pushed) - 1)
          /\ Len(meta') = Len(meta) - 1
          /\ pc' = "continue"]_vars

\* a pop happened while older continuations stay saved below the popped one
C1_Witness == last = "top_pop" /\ Len(meta) >= 1 /\ kontinuation.kt = "let"

\* C2 as stated: a KontVal(k'') delivered to Arg([v1..vn], K') pushes K',
\* makes k'' current and delivers the first operand v1.
C2_DeliversFirstOperand ==
  [][(pc = "continue" /\ kontinuation.kt = "args" /\ value.vt = "k") =>
       /\ meta' = <<kontinuation.k>> \o meta
       /\ kontinuation' = value.k
       /\ value' = Arg(kontinuation.args, 1)]_vars

\* C2 amended: K' is pushed, k'' becomes current, and the value delivered is
\* the KontVal that wraps the whole Arg frame.
C2_DeliversFrame ==
  [][(pc = "continue" /\ kontinuation.kt = "args" /\ value.vt = "k") =>
       /\ meta' = <<kontinuation.k>> \o meta
       /\ kontinuation' = value.k
       /\ value' = continuation(kontinuation)]_vars

\* the Args case ran on a frame with operands and handed on the frame
C2_Witness ==
  /\ last = "args"
  /\ value.vt = "k" /\ value.k.kt = "args" /\ Len(value.k.args) >= 1
  /\ Len(meta) >= 1 /\ meta[1] = value.k.k

C5_StoredClosureEnvKept ==
  \A a \in DOMAIN store :
    (store[a].vt = "k" /\ store[a].k.kt = "let" /\ store[a].k.lets = <<>>) =>
      envs[store[a].k.env] = envAtBind[a]

\* C6: whenever a value is being delivered to a Let frame that a Shift
\* captured (the frame is held in the store), the Env recorded in the frame
\* has the content it had at capture time, so a second invocation of the
\* continuation does not see the bindings of the first.
C6_CapturedFrameEnvKept ==
  \A a \in DOMAIN store :
    (pc = "continue" /\ kontinuation.kt = "let" /\ kontinuation.lets # <<>>
       /\ store[a] = continuation(kontinuation)) =>
      envs[kontinuation.env] = envAtBind[a]

\* C7: when the bound term e of (let x e b) has produced a value v (v reaches
\* the frame from e itself, not as the argument of a continuation that was
\* applied), b becomes the control in an environment where x is bound to a
\* fresh address, and the store entry of that address is exactly v.
C7_LetBindsTheValue ==
  [][(pc = "continue" /\ kontinuation.kt = "let" /\ Len(kontinuation.lets) = 1
        /\ last # "args" /\ value.vt # "undefined") =>
       LET x == kontinuation.lets[1]
           b == envs'[environment'][x]
       IN /\ control' = kontinuation.exp
          /\ x \in DOMAIN envs'[environment']
          /\ b.bt = "addr"
          /\ b.a \notin DOMAIN store
          /\ b.a \in DOMAIN store'
          /\ store'[b.a] = value]_vars

\* C8: the cons program run to completion yields the KontVal wrapping
\* Arg([Scalar 3, Scalar false], Top).
C8_ConsYieldsFrame ==
  (program = ConsProgram /\ pc = "done") =>
    value = continuation(Args(<<scalar(Num(3)), scalar(Bool(FALSE))>>, topk))

\* C9: two calls of step on equal States (control, environment bindings,
\* store contents, continuation, meta-stack) return equal StepResults.
C9_EqualStatesEqualResults ==
  \A r1 \in stepLog : \A r2 \in stepLog : r1.inp = r2.inp => r1.out = r2.out

\* C10: within a run every allocated address is new to the store, and no
\* store entry is overwritten or removed.
C10_StoreOnlyGrows ==
  [][last' # "inject" =>
       /\ \A a \in DOMAIN store : a \in DOMAIN store' /\ store'[a] = store[a]
       /\ \A a \in gensymCount .. (gensymCount' - 1) :
            a \notin DOMAIN store /\ a \in DOMAIN store']_vars

\* a second run on the same machine has allocated several addresses
C10_Witness == runs = 2 /\ Cardinality(DOMAIN store) >= 3 /\ last = "letk"

\* C11 as stated: when the body k of (reset (shift k k)) has been evaluated,
\* the value about to be handed to K, the continuation that was in force
\* outside the reset, is the KontVal of K itself.
C11_RoundTripYieldsOuter ==
  (pc = "continue" /\ last = "positive" /\ control = S("k")
     /\ Contains(program, ResetShift)) =>
    (Len(pushed) >= 1 /\ value = continuation(pushed[Len(pushed)]))

\* C11 amended: the value is KontVal(Top), the empty continuation captured
\* inside the reset, and it is about to be handed to K, which waits on the
\* meta-stack.
C11_RoundTripYieldsTop ==
  (pc = "continue" /\ last = "positive" /\ control = S("k")
     /\ Contains(program, ResetShift)) =>
    /\ value = continuation(topk)
    /\ kontinuation = topk
    /\ Len(pushed) >= 1 /\ meta # <<>> /\ Head(meta) = pushed[Len(pushed)]

\* the round trip ran under a Let frame, which is not what it delivers
C11_Witness ==
  /\ pc = "continue" /\ last = "positive" /\ control = S("k")
  /\ Contains(program, ResetShift)
  /\ Len(pushed) >= 1 /\ pushed[Len(pushed)].kt = "let"
  /\ value = continuation(topk)

\* C12 as stated: stepping (? (! t)) does what evaluating t in the same
\* state does.  A positive t has its value delivered to the continuation in
\* force; a negative t becomes the control, with the same bindings, store,
\* continuation and meta-stack.
C12_ResumeSuspendIsIdentity ==
  [][(pc = "step" /\ control.tag = "cbpv_resume"
        /\ control.v.tag = "cbpv_suspend") =>
       LET t == control.v.exp
       IN IF cbpv_is_positive(t)
            THEN LET r == positive(t, environment, store, envs)
                 IN IF r.ok /\ r.val.vt # "undefined"
                      THEN /\ pc' = "continue"
                           /\ value' = r.val
                           /\ UNCHANGED <<kontinuation, store, meta>>
                      ELSE pc' = "error"
            ELSE /\ pc' = "state"
                 /\ control' = t
                 /\ envs'[environment'] = envs[environment]
                 /\ UNCHANGED <<kontinuation, store, meta>>]_vars

\* C12 amended: as above, except when the positive t evaluates to a KontVal
\* wrapping a Let frame (a closure): then (? (! t)) does not deliver that
\* value but jumps into the frame, running its body in its environment.
C12_ResumeSuspendForces ==
  [][(pc = "step" /\ control.tag = "cbpv_resume"
        /\ control.v.tag = "cbpv_suspend") =>
       LET t == control.v.exp
       IN IF cbpv_is_positive(t)
            THEN LET r == positive(t, environment, store, envs)
                 IN IF r.ok /\ r.val.vt # "undefined"
                      THEN IF r.val.vt = "k" /\ r.val.k.kt = "let"
                             THEN /\ pc' = "state"
                                  /\ control' = r.val.k.exp
                                  /\ environment' = r.val.k.env
                                  /\ UNCHANGED <<kontinuation, store, meta>>
                             ELSE /\ pc' = "continue"
                                  /\ value' = r.val
                                  /\ UNCHANGED <<kontinuation, store, meta>>
                      ELSE pc' = "error"
            ELSE /\ pc' = "state"
                 /\ control' = t
                 /\ envs'[environment'] = envs[environment]
                 /\ UNCHANGED <<kontinuation, store, meta>>]_vars

\* (? (! f)) with f bound to a closure has jumped into the closure's body
C12_Witness ==
  /\ program = ForceThunks
  /\ last = "resume_jump"
  /\ control = cbpv_resume(cbpv_suspend(cbpv_if(B(TRUE), N(1), N(2))))

\* C13: in (reset (let x (shift k (let a (k 4) (k a))) (op:mul 2 x))) every
\* application of k saves its call site (the successor K' of the Arg frame)
\* on the meta-stack; when the captured frame has run and its value reaches
\* Top, the value goes to that call site: 8 returns to the frame of
\* (let a ...), 16 returns to the second caller, and the run yields 16.
C13_InvocationsReturnToCaller ==
  program = TwiceProgram =>
    /\ (last = "args" =>
          /\ meta # <<>> /\ Head(meta) = value.k.k
          /\ kontinuation.kt = "let" /\ kontinuation.lets = <<"x">>)
    /\ (last = "top_pop" =>
          \/ /\ kontinuation.kt = "let" /\ kontinuation.lets = <<"a">>
             /\ value = scalar(Num(8))
          \/ /\ kontinuation = topk
             /\ value = scalar(Num(16)))
    /\ (pc = "done" => value = scalar(Num(16)))

\* the first invocation of k has returned 8 to the frame of (let a ...)
C13_Witness ==
  /\ program = TwiceProgram /\ last = "top_pop"
  /\ kontinuation.kt = "let" /\ kontinuation.lets = <<"a">>
  /\ value = scalar(Num(8))

\* C14: the generator program of scenario check 9 runs to completion without
\* an error and yields Scalar 6; the three re-entries of the captured
\* continuation have observed 1, 2 and 3, in that order, as n1, n2 and n3.
C14_GeneratorYieldsSix ==
  program = Scenario9 =>
    /\ pc # "error"
    /\ (pc = "done" =>
          /\ value = scalar(Num(6))
          /\ BoundValue("n1") = scalar(Num(1))
          /\ BoundValue("n2") = scalar(Num(2))
          /\ BoundValue("n3") = scalar(Num(3)))

\* the generator program has run to its terminal value
C14_Witness ==
  /\ program = Scenario9 /\ pc = "done" /\ last = "top_done"
  /\ value = scalar(Num(6))
  /\ BoundValue("n2") = scalar(Num(2))

\* C15: stepping an Apply or an Op term evaluates the operands from left to
\* right: when operands fail, the error of the leftmost failing operand is
\* the one thrown, also when the host op of the term itself would throw;
\* when none fails, Apply pushes the frame of the operand values in operand
\* order and Op hands the values, in operand order, to the host op.
C15_OperandsLeftToRight ==
  [][(pc = "step" /\ control.tag \in {"cbpv_apply", "cbpv_op"}) =>
       LET erands == control.erands
           res(j) == positive(erands[j], environment, store, envs)
           fails == {j \in DOMAIN erands : ~res(j).ok}
       IN IF fails # {}
            THEN LET i == CHOOSE j \in fails : \A l \in fails : j <= l
                 IN pc' = "error" /\ err' = res(i).err
            ELSE IF control.tag = "cbpv_apply"
            THEN /\ kontinuation'.kt = "args"
                 /\ kontinuation'.k = kontinuation
                 /\ Len(kontinuation'.args) = Len(erands)
                 /\ \A j \in DOMAIN erands :
                      res(j).val.vt = "v" => kontinuation'.args[j] = res(j).val
            ELSE LET r == thisOp(control.opSym,
                                [j \in DOMAIN erands |-> res(j).val], envs)
                 IN IF r.ok THEN pc' = "continue" /\ value' = r.val
                    ELSE pc' = "error" /\ err' = r.err]_vars

\* an Op term whose two operands both fail threw the error of the first
C15_Witness ==
  program = OpOrder /\ pc = "error" /\ err = "UnknownOp" /\ last = "throw_positive"

C17_ScalarToArgsThrows ==
  [][(pc = "continue" /\ kontinuation.kt = "args" /\ value.vt = "v") =>
       /\ pc' = "error"
       /\ err' = "ExpectedContinuation"
       /\ [inp |-> stepIn,
           out |-> [done |-> FALSE,
                    value |-> [thrown |-> "ExpectedContinuation"]]] \in stepLog']_vars

\* the scalar 1 was applied to 2 and the step threw
C17_Witness ==
  /\ program = ScalarApplied /\ pc = "error" /\ last = "throw_args"
  /\ err = "ExpectedContinuation"
  /\ value = scalar(Num(1))

\* C18: an If step whose condition evaluates to anything but a Scalar
\* boolean (a KontVal, a Scalar number, a Scalar null) throws: the call
\* yields no State, its outcome is the error.
C18_IfRequiresBoolean ==
  [][(pc = "step" /\ control.tag = "cbpv_if") =>
       LET cv == positive(control.c, environment, store, envs)
       IN (cv.ok /\ cv.val.vt # "undefined"
             /\ ~(cv.val.vt = "v" /\ cv.val.v.ty = "boolean")) =>
            /\ pc' = "error"
            /\ err' = "IfRequiresBool"
            /\ UNCHANGED control
            /\ [inp |-> stepIn,
                out |-> [done |-> FALSE,
                         value |-> [thrown |-> "IfRequiresBool"]]] \in stepLog']_vars

\* an If on the number 5 threw
C18_Witness ==
  /\ pc = "error" /\ last = "throw_if" /\ err = "IfRequiresBool"
  /\ control = cbpv_if(N(5), N(1), N(2))

\* C19: stepping an Abstract term while the current continuation is Top or a
\* Let frame throws: nothing is bound, the call yields no State, its outcome
\* is the error.
C19_AbstractNeedsArgs ==
  [][(pc = "step" /\ control.tag = "cbpv_abstract"
        /\ kontinuation.kt \in {"top", "let"}) =>
       /\ pc' = "error"
       /\ err' = "ArityOrContext"
       /\ UNCHANGED <<control, store, gensymCount, envs>>
       /\ [inp |-> stepIn,
           out |-> [done |-> FALSE,
                    value |-> [thrown |-> "ArityOrContext"]]] \in stepLog']_vars

\* an Abstract stepped under a Let frame threw
C19_Witness ==
  /\ program = AbstractUnderLet
  /\ pc = "error" /\ last = "throw_abstract" /\ err = "ArityOrContext"
  /\ kontinuation.kt = "let"

\* C20: positive throws InvalidPositive when it is handed a negative term.
\* A step whose Apply or Op term has a negative operand, with the operands
\* before it evaluating without error, whose If has a negative condition, or
\* whose Resume has a negative argument, throws that error: the call yields
\* neither a State nor a terminal value.
C20_NegativeTermIsInvalidPositive ==
  [][(/\ pc = "step"
      /\ \/ /\ control.tag \in {"cbpv_apply", "cbpv_op"}
            /\ \E i \in DOMAIN control.erands :
                 /\ ~cbpv_is_positive(control.erands[i])
                 /\ \A j \in 1 .. (i - 1) :
                      positive(control.erands[j], environment, store, envs).ok
         \/ control.tag = "cbpv_if" /\ ~cbpv_is_positive(control.c)
         \/ control.tag = "cbpv_resume" /\ ~cbpv_is_positive(control.v)) =>
       /\ pc' = "error"
       /\ err' = "InvalidPositive"
       /\ [inp |-> stepIn,
           out |-> [done |-> FALSE,
                    value |-> [thrown |-> "InvalidPositive"]]] \in stepLog']_vars

\* an Op term with a negative second operand threw
C20_Witness ==
  /\ program = NegativeOperand /\ control = NegativeOperand
  /\ pc = "error" /\ err = "InvalidPositive" /\ last = "throw_positive"

\* C21: with the default op hook (a machine that does not override op, or an
\* op name the overriding host hands on to the default), evaluating an Op
\* term whose operands evaluate to values fails with UnknownOp, whatever the
\* op name and the operand values; a step whose control is such a term
\* raises the error and produces neither a state nor a value.
C21_DefaultOpFails ==
  [][pc = "step" =>
       /\ \A t \in TermsIn(program) :
            (/\ t.tag = "cbpv_op"
             /\ hooks = "CESKM" \/ t.opSym \notin DebugMachineOps
             /\ LET a == positiveAll(t.erands, environment, store, envs, <<>>)
                IN a.ok /\ \A i \in DOMAIN a.val : a.val[i].vt # "undefined")
            => LET r == positive(t, environment, store, envs)
               IN ~r.ok /\ r.err = "UnknownOp"
       /\ (/\ control.tag = "cbpv_op"
           /\ hooks = "CESKM" \/ control.opSym \notin DebugMachineOps)
            => /\ pc' = "error"
               /\ stepLog' = stepLog \cup
                    {[inp |-> stepIn,
                      out |-> [done |-> FALSE, value |-> [thrown |-> err']]]}
               /\ positiveAll(control.erands, environment, store, envs, <<>>).ok
                    => err' = "UnknownOp"]_vars

\* a machine with the default hooks was given (op:add 1 2): the operands
\* evaluated, the default op threw
C21_Witness ==
  /\ hooks = "CESKM" /\ program = cbpv_op("op:add", <<N(1), N(2)>>)
  /\ pc = "error" /\ err = "UnknownOp" /\ last = "throw_positive"

\* C22: the symbol `_` evaluates to KontVal(Top) in every environment and
\* store, also in an environment that binds the name `_`, and its evaluation
\* never fails; (let _ 5 _) therefore ends with KontVal(Top), not with 5.
C22_DiscardIsTop ==
  /\ \A e \in DOMAIN envs :
       positive(S("_"), e, store, envs) = Ok(continuation(topk), envs)
  /\ (program = DiscardBound /\ pc \in {"done", "error"}) =>
       (pc = "done" /\ value = continuation(topk))

\* (let _ 5 _) ended while its environment binds `_` to the address of 5
C22_Witness ==
  /\ program = DiscardBound /\ pc = "done" /\ hooks = "DebugMachine"
  /\ "_" \in DOMAIN envs[environment]
  /\ store[envs[environment]["_"].a] = scalar(Num(5))
  /\ value = continuation(topk)

\* C23: the positivity predicate answers for each of the twelve term
\* variants, with true exactly for Literal, Symbol, Op and Suspend and false
\* for the other eight, whatever the subterms are; step takes its positive
\* (default) branch exactly on those four.
C23_PositiveVariants ==
  [][/\ \A t \in TermsIn(program) \cup {control} :
          /\ t.tag \in {"cbpv_literal", "cbpv_symbol", "cbpv_op",
                        "cbpv_suspend", "cbpv_resume", "cbpv_abstract",
                        "cbpv_apply", "cbpv_let", "cbpv_letrec", "cbpv_reset",
                        "cbpv_shift", "cbpv_if"}
          /\ cbpv_is_positive(t) \in BOOLEAN
          /\ cbpv_is_positive(t) <=>
               t.tag \in {"cbpv_literal", "cbpv_symbol", "cbpv_op",
                          "cbpv_suspend"}
     /\ (pc = "step" /\ last' \in {"positive", "throw_positive"}) <=>
          (pc = "step" /\ pc' # "step" /\
           control.tag \in {"cbpv_literal", "cbpv_symbol", "cbpv_op",
                            "cbpv_suspend"})]_vars

\* step took the positive branch on an Op term whose first operand is an Op
\* term, in a program that has terms of eleven of the variants
C23_Witness ==
  /\ program = Scenario9 /\ last = "positive"
  /\ control.tag = "cbpv_op" /\ control.erands[1].tag = "cbpv_op"

C26_OpPrefixRoutes ==
  (ast.at = "array" /\ Len(ast.items) >= 1) =>
    LET head == ast.items[1]
        rest == buildAll(Tail(ast.items), <<>>)
        op0 == build_cbpv(head)
    IN IF head.at = "string" /\ head.str \in {"op:o", "op:"}
         THEN IF rest.ok
                THEN built = Built(cbpv_op(head.str, rest.term))
                ELSE ~built.ok
         ELSE (head.at # "string" \/ head.str \notin Keywords) =>
                IF op0.ok /\ rest.ok
                  THEN built = Built(cbpv_app(op0.term, rest.term))
                  ELSE ~built.ok

\* (op:o (x 1)) became the Op term op:o over the Apply term (x 1)
C26_Witness ==
  /\ ast = astArray(<<astString("op:o"),
                      astArray(<<astString("x"), astNumber(1)>>)>>)
  /\ built = Built(cbpv_op("op:o", <<cbpv_app(S("x"), <<N(1)>>)>>))

\* C27: build_cbpv raises an error, and produces no term, for every let form
\* whose binder is anything other than a single symbol and for every shift
\* form whose continuation name is not a symbol.
C27_RejectsBadBinders ==
  LET IsSymbol(a) == a.at = "string" /\ Spelling[a.str][1] # "\""
  IN (/\ ast.at = "array" /\ Len(ast.items) >= 1
      /\ ast.items[1] \in {astString("let"), astString("shift")}
      /\ ~IsSymbol(Index(ast, 1)))
       => ~built.ok

\* C28: a Shift(k, body) step with current continuation K allocates one
\* address a that was not in the store, binds k to a in the environment,
\* stores KontVal(K) at a, sets control to body and the continuation to Top,
\* and leaves the meta-stack and every store entry that existed before (the
\* value it holds, with the environments embedded in it) unchanged.
C28_ShiftEffect ==
  [][(pc = "step" /\ control.tag = "cbpv_shift") =>
       /\ \E a \in DOMAIN store' :
            /\ a \notin DOMAIN store
            /\ DOMAIN store' = DOMAIN store \cup {a}
            /\ envs'[environment'] =
                 EnvBind(envs[environment], control.karg, addrBinding(a))
            /\ store'[a] = continuation(kontinuation)
       /\ control' = control.body
       /\ kontinuation' = [kt |-> "top"]
       /\ meta' = meta
       /\ pc' = "state"
       /\ \A b \in DOMAIN store :
            DeepVal(store'[b], envs') = DeepVal(store[b], envs)]_vars

\* C29: a Reset(t) step puts the current continuation K on top of the
\* meta-stack (one entry more, the earlier entries below it in the order they
\* had), sets control to t and the continuation to Top, and leaves the
\* environment and the store unchanged.
C29_ResetEffect ==
  [][(pc = "step" /\ control.tag = "cbpv_reset") =>
       /\ Len(meta') = Len(meta) + 1
       /\ meta'[1] = kontinuation
       /\ \A i \in DOMAIN meta : meta'[i + 1] = meta[i]
       /\ control' = control.exp
       /\ kontinuation' = [kt |-> "top"]
       /\ environment' = environment /\ envs' = envs
       /\ store' = store
       /\ pc' = "state"]_vars

\* the inner reset of the nested program was stepped under a Let frame while
\* the outer reset's Top was saved: the frame is on top of it
C29_Witness ==
  /\ program = NestedResets /\ last = "reset"
  /\ Len(meta) = 2 /\ meta[1].kt = "let" /\ meta[2].kt = "top"
  /\ kontinuation.kt = "top" /\ control.tag = "cbpv_let"

\* C30: the meta-stack is LIFO.  Read from the top it holds the saved
\* continuations that have not been restored yet, the most recently saved
\* first; a Reset or a continuation application saves on top; a value that
\* reaches Top restores the most recently saved one and removes exactly that
\* one, so none is skipped and none is restored twice.
C30_MetaIsLifo ==
  [][/\ Len(meta) = Len(pushed)
     /\ \A i \in DOMAIN meta : meta[i] = pushed[Len(pushed) + 1 - i]
     /\ Len(meta') = Len(pushed')
     /\ \A i \in DOMAIN meta' : meta'[i] = pushed'[Len(pushed') + 1 - i]
     /\ (last' \in {"reset", "args"} /\ pc \in {"step", "continue"}) =>
          /\ Len(pushed') = Len(pushed) + 1
          /\ SubSeq(pushed', 1, Len(pushed)) = pushed
     /\ (last' = "top_pop" /\ pc = "continue" /\ iters' # iters) =>
          /\ kontinuation' = pushed[Len(pushed)]
          /\ pushed' = SubSeq(pushed, 1, Len(pushed) - 1)
     /\ (pc' = "done" /\ pc # "done") => pushed = <<>>]_vars

\* in the nested program the value of the inner reset reached Top while two
\* continuations were saved: the Let frame saved last was restored and the
\* outer Top stays
C30_Witness ==
  /\ program = NestedResets /\ last = "top_pop"
  /\ kontinuation.kt = "let" /\ kontinuation.lets = <<"a">>
  /\ meta = <<[kt |-> "top"]>>

\* C31: an Abstract([x1..xn], body) step whose continuation is
\* Arg([v1..vm], K') with m >= n allocates n pairwise distinct addresses that
\* were not in the store, binds each xi to the i-th of them and stores vi
\* there, sets control to body and the continuation to K', and leaves the
\* meta-stack unchanged.
C31_AbstractBindsEach ==
  [][(/\ pc = "step" /\ control.tag = "cbpv_abstract"
      /\ kontinuation.kt = "args"
      /\ Len(kontinuation.args) >= Len(control.args)) =>
       LET n == Len(control.args)
           fresh == DOMAIN store' \ DOMAIN store
           at(i) == envs'[environment'][control.args[i]]
       IN /\ Cardinality(fresh) = n
          /\ \A i \in 1..n :
               /\ at(i).bt = "addr" /\ at(i).a \in fresh
               /\ store'[at(i).a] = kontinuation.args[i]
               /\ \A j \in 1..n : i # j => at(i).a # at(j).a
          /\ \A b \in DOMAIN store : store'[b] = store[b]
          /\ control' = control.body
          /\ kontinuation' = kontinuation.k
          /\ meta' = meta
          /\ pc' = "state"]_vars

\* the function of the cons program was entered with the operands 3 and #f:
\* a and b are bound to two addresses that hold them
C31_Witness ==
  /\ program = ConsProgram /\ last = "abstract"
  /\ {"a", "b"} \subseteq DOMAIN envs[environment]
  /\ envs[environment]["a"].a # envs[environment]["b"].a
  /\ BoundValue("a") = scalar(Num(3)) /\ BoundValue("b") = scalar(Bool(FALSE))

\* C32: processing Letrec([(xi, ti)], b) binds each xi to its definition term
\* ti, not to an address, allocates nothing and leaves the store, the
\* continuation and the meta-stack unchanged; wherever a name is bound to a
\* definition, evaluating it builds a new closure KontVal(Let([], ti, E, Top))
\* over a copy E of the environment it is looked up in, and that environment
\* holds every name of the same Letrec.
C32_LetrecBindsDefinitions ==
  [][/\ (pc = "step" /\ control.tag = "cbpv_letrec") =>
          /\ \A i \in DOMAIN control.bindings :
               /\ control.bindings[i][1] \in DOMAIN envs'[environment']
               /\ envs'[environment'][control.bindings[i][1]] =
                    [bt |-> "def", d |-> control.bindings[i][2]]
          /\ control' = control.body
          /\ environment' = environment
          /\ store' = store /\ gensymCount' = gensymCount
          /\ kontinuation' = kontinuation /\ meta' = meta
     /\ \A e \in DOMAIN envs : \A x \in DOMAIN envs[e] :
          envs[e][x].bt = "def" =>
            LET r == positive(S(x), e, store, envs)
            IN /\ r.ok
               /\ r.val = continuation(Let(<<>>, envs[e][x].d, Len(envs) + 1,
                                           [kt |-> "top"]))
               /\ Len(r.h) = Len(envs) + 1
               /\ r.h[Len(envs) + 1] = envs[e]
               /\ \A i \in DOMAIN envs : r.h[i] = envs[i]
               /\ \A l \in {t \in TermsIn(program) : t.tag = "cbpv_letrec"} :
                    (\E i \in DOMAIN l.bindings : l.bindings[i] = <<x, envs[e][x].d>>)
                      => \A j \in DOMAIN l.bindings :
                           l.bindings[j][1] \in DOMAIN r.h[Len(envs) + 1]]_vars

\* in the generator program the closure built for one of the three
\* definitions was resumed: its environment holds yield, next and peek
C32_Witness ==
  /\ program = Scenario9 /\ last = "resume_jump"
  /\ control.tag = "cbpv_abstract"
  /\ \A x \in {"yield", "next", "peek"} :
       x \in DOMAIN envs[environment] /\ envs[environment][x].bt = "def"
  /\ DOMAIN store # {}

\* C33: the Let frame pushed by Let(x, t, b) records the environment as it is
\* when the Let is processed, and b runs in exactly the recorded environment
\* extended with x: when a value is delivered to a frame that a Shift
\* captured while t was evaluated, the names b sees are those recorded at
\* the capture and x, and no name bound later.
C33_LetFrameEnvRecorded ==
  [][/\ (pc = "step" /\ control.tag = "cbpv_let") =>
          /\ kontinuation' =
               Let(control.v, control.body, Len(envs) + 1, kontinuation)
          /\ Len(envs') = Len(envs) + 1
          /\ envs'[Len(envs) + 1] = envs[environment]
          /\ envs'[environment] = envs[environment]
     /\ \A a \in DOMAIN store :
          (/\ pc = "continue" /\ kontinuation.kt = "let"
           /\ Len(kontinuation.lets) = 1
           /\ store[a] = continuation(kontinuation)
           /\ pc' = "state") =>
            /\ control' = kontinuation.exp
            /\ DOMAIN envs'[environment'] =
                 DOMAIN envAtBind[a] \cup {kontinuation.lets[1]}
            /\ \A n \in DOMAIN envAtBind[a] \ {kontinuation.lets[1]} :
                 envs'[environment'][n] = envAtBind[a][n]]_vars

\* C34: an If step whose condition evaluates to Scalar true sets control to
\* the then-term, and to Scalar false to the else-term; in both cases the
\* environment, the store, the continuation and the meta-stack of the State
\* it yields equal those of the State it was given.
C34_IfBranches ==
  [][(pc = "step" /\ control.tag = "cbpv_if") =>
       LET cv == positive(control.c, environment, store, envs)
       IN (cv.ok /\ cv.val \in {scalar(Bool(TRUE)), scalar(Bool(FALSE))}) =>
            /\ pc' = "state"
            /\ control' = IF cv.val = scalar(Bool(TRUE)) THEN control.t
                          ELSE control.e
            /\ environment' = environment
            /\ store' = store
            /\ kontinuation' = kontinuation
            /\ meta' = meta
            /\ DeepState' = [DeepState EXCEPT !.control = control']
            /\ stepLog' = stepLog \cup
                 {[inp |-> stepIn, out |-> [done |-> FALSE, value |-> DeepState']]}]_vars

\* the If of the suspend/resume program took its then-branch under a saved
\* continuation and with a populated store, which it passed on
C34_Witness ==
  /\ program = SuspendResume /\ last = "if"
  /\ control = cbpv_resume(S("w"))
  /\ meta # <<>> /\ DOMAIN store # {} /\ "w" \in DOMAIN envs[environment]

\* C35: positive(Suspend(t)) is the closure KontVal(Let([], t, E, Top)) over
\* a copy E of the current environment when t is negative, and is exactly
\* positive(t) when t is positive, so Suspend(Suspend(p)), Suspend(p) and p
\* evaluate alike for a positive p.
C35_SuspendOfPositiveIsIdentity ==
  \A t \in TermsIn(program) : \A e \in DOMAIN envs :
    LET r == positive(cbpv_suspend(t), e, store, envs)
    IN IF t.tag \in {"cbpv_literal", "cbpv_symbol", "cbpv_op", "cbpv_suspend"}
         THEN /\ r = positive(t, e, store, envs)
              /\ positive(cbpv_suspend(cbpv_suspend(t)), e, store, envs) = r
         ELSE /\ r.ok
              /\ r.val = continuation(Let(<<>>, t, Len(envs) + 1, [kt |-> "top"]))
              /\ r.h = Append(envs, envs[e])

\* (! #t) ended with the scalar true, or (! (\ (n) n)) with a closure
C35_Witness ==
  \/ /\ program = cbpv_suspend(B(TRUE)) /\ hooks = "DebugMachine"
     /\ pc = "done" /\ value = scalar(Bool(TRUE)) /\ Len(envs) = 1
  \/ /\ program = cbpv_suspend(cbpv_lam(<<"n">>, S("n")))
     /\ pc = "done" /\ value.vt = "k" /\ value.k.lets = <<>>
     /\ value.k.exp = cbpv_lam(<<"n">>, S("n")) /\ Len(envs) = 2

\* C36: in every state of a run, every address to which an environment maps
\* a name (the current environment and every environment recorded in a
\* frame or a closure) is populated in the store, and no step fails with
\* UnboundAddress.
C36_BoundAddressesPopulated ==
  /\ \A e \in DOMAIN envs : \A x \in DOMAIN envs[e] :
       envs[e][x].bt = "addr" => envs[e][x].a \in DOMAIN store
  /\ err # "UnboundAddress"

\* a symbol bound to an address was evaluated, in a run that has made
\* several environments
C36_Witness ==
  /\ last = "positive" /\ control.tag = "cbpv_symbol"
  /\ control.name \in DOMAIN envs[environment]
  /\ envs[environment][control.name].bt = "addr"
  /\ value = store[envs[environment][control.name].a]
  /\ Len(envs) >= 3 /\ Cardinality(DOMAIN store) >= 2

\* C37: in every state of a run, whatever the program (also one that applies
\* a function to fewer operands than it has parameters, or a continuation to
\* no operand), every store entry holds a Scalar or a KontVal, never an
\* absent or undefined value.
C37_StoreHoldsValues ==
  \A a \in DOMAIN store : store[a].vt \in {"v", "k"}

\* C38: when a call to step raises one of the errors ExpectedContinuation,
\* IfRequiresBool, ArityOrContext, InvalidPositive, UnboundSymbol, UnknownOp,
\* the State passed to the call is as it was before the call: its
\* meta-stack, the bindings of its environment and the contents of its
\* store are unchanged.
C38_ThrowLeavesState ==
  [][(/\ pc \in {"step", "continue"}
      /\ pc' = "error"
      /\ err' \in {"ExpectedContinuation", "IfRequiresBool", "ArityOrContext",
                   "InvalidPositive", "UnboundSymbol", "UnknownOp"}) =>
       /\ DeepMeta(meta', envs') = stepIn.meta
       /\ stepEnv \in DOMAIN envs'
       /\ envs'[stepEnv] = stepIn.environment
       /\ [a \in DOMAIN store' |-> DeepVal(store'[a], envs')] = stepIn.store]_vars

\* C39: Parser.parse terminates, by returning or by throwing, on every
\* finite input string, also on one that ends inside a `;` comment with no
\* newline after it and on one that ends inside an unterminated string.
C39_ParseTerminates ==
  (ppc # "idle") ~> (ppc \in {"returned", "thrown"})

====
